---- MODULE Spec2Model ----
(***************************************************************************)
(* A model of the copy-on-write B-tree of package btree: the page codec    *)
(* (BNode accessors over a byte buffer), the node builders, the splitter,  *)
(* the merge policy and the tree walker (Insert / Delete).                 *)
(***************************************************************************)
EXTENDS Integers, Sequences, FiniteSets, TLC

(***************************************************************************)
(* Program constants.                                                      *)
(***************************************************************************)
NODE == 1
LEAF == 2
BTREE_PAGE_SIZE_BYTES == 4096
BTREE_MAX_KEY_SIZE_BYTES == 1000
BREE_MAX_VAL_SIZE_BYTES == 3000
HEADER_SIZE == 4
MERGE_THRESHOLD_BTYES == BTREE_PAGE_SIZE_BYTES \div 4

(***************************************************************************)
(* Bounds of the model.                                                    *)
(***************************************************************************)
\* number of Insert / Delete calls made on the tree handle
MaxOps == 3
\* number of entries of a node buffer assembled by the builder
MaxEntries == 3

(***************************************************************************)
(* Byte buffers.  A Go []byte of length len is a record: b maps the        *)
(* positions holding a non-zero byte to that byte, every other position    *)
(* below len holds 0 (make([]byte, n) is all zeros).                       *)
(***************************************************************************)
\* uint16 arithmetic wraps
U16(x) == x % 65536

make(n) == [len |-> n, b |-> [i \in {} |-> 0]]

ByteAt(node, i) == IF i \in DOMAIN node.b THEN node.b[i] ELSE 0

\* copy the bytes bs into node starting at position pos
PutBytes(node, pos, bs) ==
    LET W == {pos + k - 1 : k \in 1..Len(bs)}
        NZ == {pos + k - 1 : k \in {j \in 1..Len(bs) : bs[j] # 0}}
        D == ((DOMAIN node.b) \ W) \cup NZ
    IN  [node EXCEPT !.b = [i \in D |-> IF i \in W THEN bs[i - pos + 1] ELSE node.b[i]]]

\* node[start:][:n]
Slice(node, start, n) == [i \in 1..n |-> ByteAt(node, start + i - 1)]

\* the two bytes at pos read in big-endian order
Uint16BE(node, pos) == 256 * ByteAt(node, pos) + ByteAt(node, pos + 1)

\* binary.LittleEndian.Uint16(node[pos:])
Uint16(node, pos) == ByteAt(node, pos) + 256 * ByteAt(node, pos + 1)

\* binary.LittleEndian.PutUint16(node[pos:], v)
PutUint16(node, pos, v) == PutBytes(node, pos, <<v % 256, (v \div 256) % 256>>)

RECURSIVE LEValue(_, _, _)
LEValue(node, pos, n) ==
    IF n = 0 THEN 0 ELSE ByteAt(node, pos) + 256 * LEValue(node, pos + 1, n - 1)

\* binary.LittleEndian.Uint64(node[pos:])
Uint64(node, pos) == LEValue(node, pos, 8)

\* the n little-endian bytes of v
RECURSIVE LEBytes(_, _)
LEBytes(v, n) == IF n = 0 THEN <<>> ELSE <<v % 256>> \o LEBytes(v \div 256, n - 1)

\* binary.LittleEndian.PutUint64(node[pos:], v)
PutUint64(node, pos, v) == PutBytes(node, pos, LEBytes(v, 8))

\* bytes.Compare: -1, 0 or +1, lexicographic
RECURSIVE Compare(_, _)
Compare(a, b) ==
    IF Len(a) = 0 /\ Len(b) = 0 THEN 0
    ELSE IF Len(a) = 0 THEN -1
    ELSE IF Len(b) = 0 THEN 1
    ELSE IF Head(a) < Head(b) THEN -1
    ELSE IF Head(a) > Head(b) THEN 1
    ELSE Compare(Tail(a), Tail(b))

(***************************************************************************)
(* Page codec: the BNode accessors.  An accessor that returns (value,      *)
(* error) is a record [v, err].                                            *)
(***************************************************************************)
btype(node) == Uint16(node, 0)

nkeys(node) == Uint16(node, 2)

setHeader(node, bt, n) == PutUint16(PutUint16(node, 0, bt), 2, n)

isValidIndex(node, index) == index < nkeys(node)

getPtr(node, index) ==
    IF ~isValidIndex(node, index) THEN [v |-> 0, err |-> TRUE]
    ELSE [v |-> Uint64(node, U16(HEADER_SIZE + 8 * index)), err |-> FALSE]

setPtr(node, index, val) ==
    IF ~isValidIndex(node, index) THEN node
    ELSE PutUint64(node, U16(HEADER_SIZE + 8 * index), val)

getOffset(node, index) ==
    IF index = 0 THEN 0
    ELSE Uint16(node, U16(HEADER_SIZE + 8 * nkeys(node) + 2 * (index - 1)))

kvPos(node, index) ==
    IF ~(index <= nkeys(node)) THEN [v |-> 0, err |-> TRUE]
    ELSE [v |-> U16(HEADER_SIZE + 8 * nkeys(node) + 2 * nkeys(node) + getOffset(node, index)),
          err |-> FALSE]

nbytes(node) == kvPos(node, nkeys(node)).v

getValue(node, index) ==
    IF index >= nkeys(node) THEN [v |-> <<>>, err |-> TRUE]
    ELSE LET pos == kvPos(node, index).v
             keylength == Uint16(node, pos)
             vallen == Uint16(node, U16(pos + 2))
         IN  [v |-> Slice(node, U16(pos + 4 + keylength), vallen), err |-> FALSE]

getKey(node, index) ==
    IF index >= nkeys(node) THEN [v |-> <<>>, err |-> TRUE]
    ELSE LET pos == kvPos(node, index).v
             keylen == Uint16(node, pos)
         IN  [v |-> Slice(node, U16(pos + 4), keylen), err |-> FALSE]

(***************************************************************************)
(* Node builder.                                                           *)
(***************************************************************************)
\* the function body is empty: the destination buffer is left as it was
nodeAppendKeyVal(next, destination, ptr, key, val) == next

RECURSIVE nodeAppendAcrossRange(_, _, _, _, _)
nodeAppendAcrossRange(next, old, dest, src, n) ==
    IF n = 0 THEN next
    ELSE LET source == U16(src + n - 1)
             dst == U16(dest + n - 1)
             done == nodeAppendAcrossRange(next, old, dest, src, n - 1)
         IN  nodeAppendKeyVal(done, dst, getPtr(old, source).v,
                              getKey(old, source).v, getValue(old, source).v)

leafInsert(next, old, index, key, val) ==
    nodeAppendAcrossRange(setHeader(next, LEAF, U16(nkeys(old) + 1)), old, 0, 0, index)

\* leafUpdate with the entry count of leafInsert
leafUpdateGrow(next, old, index, key, val) ==
    LET h == setHeader(next, LEAF, U16(nkeys(old) + 1))
        a == nodeAppendAcrossRange(h, old, 0, 0, index)
        b == nodeAppendKeyVal(a, index, 0, key, val)
    IN  nodeAppendAcrossRange(b, old, U16(index + 1), U16(index + 1),
                              U16(nkeys(old) - (index + 1)))

leafUpdate(next, old, index, key, val) ==
    LET h == setHeader(next, LEAF, nkeys(old))
        a == nodeAppendAcrossRange(h, old, 0, 0, index)
        b == nodeAppendKeyVal(a, index, 0, key, val)
    IN  nodeAppendAcrossRange(b, old, U16(index + 1), U16(index + 1),
                              U16(nkeys(old) - (index + 1)))

\* the loop of nodeLookupLE with an equal key treated as a greater one
RECURSIVE lookupFromStrict(_, _, _)
lookupFromStrict(node, key, i) ==
    IF i < nkeys(node)
    THEN LET cmp == Compare(getKey(node, i).v, key)
         IN  IF cmp >= 0 THEN U16(i - 1)
             ELSE lookupFromStrict(node, key, i + 1)
    ELSE U16(i - 1)

RECURSIVE lookupFrom(_, _, _)
lookupFrom(node, key, i) ==
    IF i < nkeys(node)
    THEN LET cmp == Compare(getKey(node, i).v, key)
         IN  IF cmp = 0 THEN i
             ELSE IF cmp > 0 THEN U16(i - 1)
             ELSE lookupFrom(node, key, i + 1)
    ELSE U16(i - 1)

\* the position before the one nodeLookupLE returns
nodeLookupLT(node, key) == U16(lookupFrom(node, key, 0) - 1)

nodeLookupLE(node, key) == lookupFrom(node, key, 0)

(***************************************************************************)
(* Sequencing.  Let(x, F) is F applied to the value of x: x is evaluated   *)
(* once, as a statement 'v := x' followed by the statements of F does.     *)
(***************************************************************************)
Let(x, F(_)) == CHOOSE r \in {F(v) : v \in {x}} : TRUE

(***************************************************************************)
(* Splitter.                                                               *)
(***************************************************************************)
\* left_bytes() of nodeSplitInHalf for a given numleft
left_bytes(old, numleft) ==
    U16(4 + 8 * numleft + 2 * numleft + getOffset(old, numleft))

\* right_bytes() of nodeSplitInHalf for a given numleft
right_bytes(old, numleft) == U16(nbytes(old) - left_bytes(old, numleft) * 4)

\* for left_bytes() > BTREE_PAGE_SIZE_BYTES { numleft-- }
RECURSIVE shrinkLeft(_, _)
shrinkLeft(old, numleft) ==
    IF left_bytes(old, numleft) > BTREE_PAGE_SIZE_BYTES
    THEN shrinkLeft(old, U16(numleft - 1))
    ELSE numleft

\* for right_bytes() > BTREE_PAGE_SIZE_BYTES { numleft++ }: the loop exits at the
\* first numleft+k (16-bit) whose right_bytes() fits.  The 65536 values of the
\* counter are searched in blocks of 256: exitBlock is the first block holding an
\* exit (-1 when no value of the counter ends the loop), exitIn the first exit
\* from a given start.
RECURSIVE exitBlock(_, _, _)
exitBlock(old, numleft, blk) ==
    IF \E j \in 0..255 :
           right_bytes(old, U16(numleft + 256 * blk + j)) <= BTREE_PAGE_SIZE_BYTES
    THEN blk
    ELSE IF blk = 255 THEN -1 ELSE exitBlock(old, numleft, blk + 1)

RECURSIVE exitIn(_, _)
exitIn(old, numleft) ==
    IF right_bytes(old, numleft) > BTREE_PAGE_SIZE_BYTES
    THEN exitIn(old, U16(numleft + 1))
    ELSE numleft

growLeft(old, numleft) ==
    Let(exitBlock(old, numleft, 0), LAMBDA blk :
        IF blk = -1 THEN -1 ELSE exitIn(old, U16(numleft + 256 * blk)))

\* err is "" for a nil error
nodeSplitInHalf(left, right, old) ==
    Let(nkeys(old), LAMBDA n :
    IF n < 2 THEN [left |-> left, right |-> right, err |-> "nkeys"]
    ELSE Let(shrinkLeft(old, n \div 2), LAMBDA nl1 :
    IF nl1 < 1 THEN [left |-> left, right |-> right, err |-> "left"]
    ELSE Let(growLeft(old, nl1), LAMBDA numleft :
    IF numleft = -1 THEN [left |-> left, right |-> right, err |-> "diverges"]
    ELSE IF numleft >= n THEN [left |-> left, right |-> right, err |-> "shift"]
    ELSE Let(U16(n - numleft), LAMBDA numRight :
         [left |-> nodeAppendAcrossRange(setHeader(left, btype(old), numleft),
                                         old, 0, 0, numleft),
          right |-> nodeAppendAcrossRange(setHeader(right, btype(old), numRight),
                                          old, 0, 0, numRight),
          err |-> ""]))))

\* node[:n]
Truncate(node, n) == [len |-> n, b |-> [i \in {j \in DOMAIN node.b : j < n} |-> node.b[i]]]

\* Splits a buffer of up to two pages into one, two or three pages.  fatal
\* is the splitter's failure to produce pages within the budget.
nodeSplit3(old) ==
    IF nbytes(old) <= BTREE_PAGE_SIZE_BYTES
    THEN [nodes |-> <<Truncate(old, BTREE_PAGE_SIZE_BYTES)>>, fatal |-> FALSE]
    ELSE Let(nodeSplitInHalf(make(2 * BTREE_PAGE_SIZE_BYTES),
                             make(BTREE_PAGE_SIZE_BYTES), old), LAMBDA s1 :
         IF s1.err # "" THEN [nodes |-> <<>>, fatal |-> TRUE]
         ELSE IF nbytes(s1.left) <= BTREE_PAGE_SIZE_BYTES
         THEN [nodes |-> <<Truncate(s1.left, BTREE_PAGE_SIZE_BYTES), s1.right>>,
               fatal |-> FALSE]
         ELSE Let(nodeSplitInHalf(make(BTREE_PAGE_SIZE_BYTES),
                                  make(BTREE_PAGE_SIZE_BYTES), s1.left), LAMBDA s2 :
              IF s2.err # "" THEN [nodes |-> <<>>, fatal |-> TRUE]
              ELSE [nodes |-> <<s2.left, s2.right, s1.right>>, fatal |-> FALSE]))

(***************************************************************************)
(* Page store: the three injected operations of the tree handle.  A tree   *)
(* handle t is [root, pages, nextId, log, assigns]: pages maps the live    *)
(* page ids to their bytes, log is the sequence of page-store calls made   *)
(* so far, assigns the sequence of assignments to root.                    *)
(***************************************************************************)
NoNode == make(0)

\* tree.get(id): the bytes written under id; a page id that is not live
\* reads as a page of zeros
get(t, id) ==
    [t |-> [t EXCEPT !.log = Append(@, [op |-> "get", id |-> id, node |-> NoNode])],
     node |-> IF id \in DOMAIN t.pages THEN t.pages[id] ELSE make(BTREE_PAGE_SIZE_BYTES)]

\* tree.create(node): stores the bytes under a fresh id
create(t, node) ==
    [t |-> [t EXCEPT !.pages = (t.nextId :> node) @@ @,
                     !.nextId = @ + 1,
                     !.log = Append(@, [op |-> "create", id |-> t.nextId, node |-> node])],
     id |-> t.nextId]

\* tree.del(id): releases id
del(t, id) ==
    [t EXCEPT !.pages = [i \in (DOMAIN @) \ {id} |-> @[i]],
              !.log = Append(@, [op |-> "del", id |-> id, node |-> NoNode])]

(***************************************************************************)
(* Tree walker: Insert.                                                    *)
(***************************************************************************)
\* tree.root = id; assigns records each assignment with the number of
\* page-store calls made before it
setRoot(t, id) ==
    [t EXCEPT !.root = id, !.assigns = Append(@, [at |-> Len(t.log), id |-> id])]

\* creates the pages of kids[from..] in order and appends one (page id,
\* first key) entry per kid to next, at positions idx+from-1, ...
RECURSIVE appendKids(_, _, _, _, _)
appendKids(t, next, idx, kids, from) ==
    IF from > Len(kids) THEN [t |-> t, node |-> next]
    ELSE Let(create(t, kids[from]), LAMBDA c :
         Let(nodeAppendKeyVal(next, U16(idx + from - 1), c.id,
                              getKey(kids[from], 0).v, <<>>), LAMBDA n :
         appendKids(c.t, n, idx, kids, from + 1)))

\* Replaces entry idx of the INTERNAL node old by one entry per kid.
nodeReplaceKidN(t, next, old, idx, kids) ==
    Let(setHeader(next, NODE, U16(nkeys(old) + Len(kids) - 1)), LAMBDA h :
    Let(nodeAppendAcrossRange(h, old, 0, 0, idx), LAMBDA a :
    Let(appendKids(t, a, idx, kids, 1), LAMBDA k :
    [t |-> k.t,
     node |-> nodeAppendAcrossRange(k.node, old, U16(idx + Len(kids)), U16(idx + 1),
                                    U16(nkeys(old) - (idx + 1)))])))

\* the LEAF case of treeInsert: 'key, _ := node.getKey(index)' declares a new
\* key that shadows the incoming one, and bytes.Equal(key, key) compares it
\* with itself
treeInsertLeaf(next, node, index, val) ==
    Let(getKey(node, index).v, LAMBDA key :
        IF key = key
        THEN leafUpdate(next, node, index, key, val)
        ELSE leafInsert(next, node, U16(index + 1), key, val))

RECURSIVE treeInsert(_, _, _, _)
treeInsert(t, node, key, val) ==
    Let(make(2 * BTREE_PAGE_SIZE_BYTES), LAMBDA next :
    Let(nodeLookupLE(node, key), LAMBDA index :
    IF btype(node) = LEAF
    THEN [t |-> t, node |-> treeInsertLeaf(next, node, index, val), fatal |-> FALSE]
    ELSE IF btype(node) = NODE
    THEN Let(getPtr(node, index).v, LAMBDA kptr :
         Let(get(t, kptr), LAMBDA g :
         Let(treeInsert(g.t, g.node, key, val), LAMBDA knode :
         IF knode.fatal THEN [t |-> knode.t, node |-> next, fatal |-> TRUE]
         ELSE Let(nodeSplit3(knode.node), LAMBDA split :
         IF split.fatal THEN [t |-> knode.t, node |-> next, fatal |-> TRUE]
         ELSE Let(nodeReplaceKidN(del(knode.t, kptr), next, node, index, split.nodes),
                  LAMBDA r : [t |-> r.t, node |-> r.node, fatal |-> FALSE])))))
    ELSE [t |-> t, node |-> next, fatal |-> FALSE]))

\* the size-limit check of Insert: TRUE when key or value is too large
checkLimit(key, val) ==
    Len(key) > BTREE_MAX_KEY_SIZE_BYTES \/ Len(val) > BREE_MAX_VAL_SIZE_BYTES

\* the loop of Insert over splitNodes[:numSplits] that fills the new root
RECURSIVE growRoot(_, _, _, _)
growRoot(t, newroot, kids, from) ==
    IF from > Len(kids) THEN [t |-> t, node |-> newroot]
    ELSE Let(create(t, kids[from]), LAMBDA c :
         Let(nodeAppendKeyVal(newroot, U16(from - 1), c.id,
                              getKey(kids[from], 0).v, <<>>), LAMBDA n :
         growRoot(c.t, n, kids, from + 1)))

\* Insert on an empty tree (tree.root == 0)
InsertEmpty(t, key, val) ==
    Let(setHeader(make(BTREE_PAGE_SIZE_BYTES), LEAF, 2), LAMBDA h :
    Let(nodeAppendKeyVal(h, 0, 0, <<>>, <<>>), LAMBDA a :
    Let(nodeAppendKeyVal(a, 1, 1, <<>>, <<>>), LAMBDA b :
    Let(create(t, b), LAMBDA c :
    [t |-> setRoot(c.t, c.id), err |-> ""]))))

\* the end of Insert with the root assigned before the new root page is created
InsertFinishRootFirst(t, splitNodes) ==
    IF Len(splitNodes) > 1
    THEN Let(growRoot(t, setHeader(make(BTREE_PAGE_SIZE_BYTES), NODE, Len(splitNodes)),
                      splitNodes, 1), LAMBDA k :
         Let(create(setRoot(k.t, k.t.nextId), k.node), LAMBDA c :
         [t |-> c.t, err |-> ""]))
    ELSE Let(create(setRoot(t, t.nextId), splitNodes[1]), LAMBDA c :
         [t |-> c.t, err |-> ""])

\* the end of Insert: the split of the root-level result is written out
InsertFinish(t, splitNodes) ==
    IF Len(splitNodes) > 1
    THEN Let(growRoot(t, setHeader(make(BTREE_PAGE_SIZE_BYTES), NODE, Len(splitNodes)),
                      splitNodes, 1), LAMBDA k :
         Let(create(k.t, k.node), LAMBDA c :
         [t |-> setRoot(c.t, c.id), err |-> ""]))
    ELSE Let(create(t, splitNodes[1]), LAMBDA c :
         [t |-> setRoot(c.t, c.id), err |-> ""])

\* Insert after the root-level split: the old root is freed, the new one written
InsertGrow(t, splitNodes) == InsertFinish(del(t, t.root), splitNodes)

\* Insert on a tree that has a root page, with the old root freed before it is read
InsertNonEmptyDelFirst(t, key, val) ==
    Let(get(del(t, t.root), t.root), LAMBDA g :
    Let(treeInsert(g.t, g.node, key, val), LAMBDA r :
    IF r.fatal THEN [t |-> r.t, err |-> "fatal"]
    ELSE Let(nodeSplit3(r.node), LAMBDA split :
    IF split.fatal THEN [t |-> r.t, err |-> "fatal"]
    ELSE InsertFinish(r.t, split.nodes))))

\* Insert on a tree that has a root page, with the old root never freed
InsertNonEmptyNoDel(t, key, val) ==
    Let(get(t, t.root), LAMBDA g :
    Let(treeInsert(g.t, g.node, key, val), LAMBDA r :
    IF r.fatal THEN [t |-> r.t, err |-> "fatal"]
    ELSE Let(nodeSplit3(r.node), LAMBDA split :
    IF split.fatal THEN [t |-> r.t, err |-> "fatal"]
    ELSE InsertFinish(r.t, split.nodes))))

\* Insert on a tree that has a root page
InsertNonEmpty(t, key, val) ==
    Let(get(t, t.root), LAMBDA g :
    Let(treeInsert(g.t, g.node, key, val), LAMBDA r :
    IF r.fatal THEN [t |-> r.t, err |-> "fatal"]
    ELSE Let(nodeSplit3(r.node), LAMBDA split :
    IF split.fatal THEN [t |-> r.t, err |-> "fatal"]
    ELSE InsertGrow(r.t, split.nodes))))

\* Insert without its size-limit check
InsertNoLimit(t, key, val) ==
    IF t.root = 0 THEN InsertEmpty(t, key, val) ELSE InsertNonEmpty(t, key, val)

\* err is "" for a nil error, "limit" for the size-limit error
Insert(t, key, val) ==
    IF checkLimit(key, val) THEN [t |-> t, err |-> "limit"]
    ELSE IF t.root = 0 THEN InsertEmpty(t, key, val)
    ELSE InsertNonEmpty(t, key, val)

(***************************************************************************)
(* Merger and tree walker: Delete.                                         *)
(***************************************************************************)
\* the right-sibling half of shouldMerge without the test of the merged size
shouldMergeRightAlways(t, node, index, updated) ==
    IF U16(index + 1) < nkeys(node)
    THEN Let(get(t, getPtr(node, U16(index + 1)).v), LAMBDA g :
         [t |-> g.t, dir |-> 1, sibling |-> g.node])
    ELSE [t |-> t, dir |-> 0, sibling |-> NoNode]

\* the right-sibling half of shouldMerge
shouldMergeRight(t, node, index, updated) ==
    IF U16(index + 1) < nkeys(node)
    THEN Let(get(t, getPtr(node, U16(index + 1)).v), LAMBDA g :
         IF U16(nbytes(g.node) + nbytes(updated) - HEADER_SIZE) <= BTREE_PAGE_SIZE_BYTES
         THEN [t |-> g.t, dir |-> 1, sibling |-> g.node]
         ELSE [t |-> g.t, dir |-> 0, sibling |-> NoNode])
    ELSE [t |-> t, dir |-> 0, sibling |-> NoNode]

shouldMerge(t, node, index, updated) ==
    IF nbytes(updated) > MERGE_THRESHOLD_BTYES
    THEN [t |-> t, dir |-> 0, sibling |-> NoNode]
    ELSE IF index > 0
    THEN Let(get(t, getPtr(node, U16(index - 1)).v), LAMBDA g :
         IF U16(nbytes(g.node) + nbytes(updated) - HEADER_SIZE) <= BTREE_PAGE_SIZE_BYTES
         THEN [t |-> g.t, dir |-> -1, sibling |-> g.node]
         ELSE shouldMergeRight(g.t, node, index, updated))
    ELSE shouldMergeRight(t, node, index, updated)

\* a new LEAF with old's entries except entry index
leafDelete(next, old, index) ==
    Let(setHeader(next, LEAF, U16(nkeys(old) - 1)), LAMBDA h :
    Let(nodeAppendAcrossRange(h, old, 0, 0, index), LAMBDA a :
    nodeAppendAcrossRange(a, old, index, U16(index + 1), U16(nkeys(old) - (index + 1)))))

\* a new node holding left's entries followed by right's
nodeMerge(next, left, right) ==
    Let(setHeader(next, btype(left), U16(nkeys(left) + nkeys(right))), LAMBDA h :
    Let(nodeAppendAcrossRange(h, left, 0, 0, nkeys(left)), LAMBDA a :
    nodeAppendAcrossRange(a, right, nkeys(left), 0, nkeys(right))))

\* a new INTERNAL node with old's entries idx and idx+1 replaced by (ptr, key)
nodeReplace2Kid(next, old, idx, ptr, key) ==
    Let(setHeader(next, NODE, U16(nkeys(old) - 1)), LAMBDA h :
    Let(nodeAppendAcrossRange(h, old, 0, 0, idx), LAMBDA a :
    Let(nodeAppendKeyVal(a, idx, ptr, key, <<>>), LAMBDA b :
    nodeAppendAcrossRange(b, old, U16(idx + 1), U16(idx + 2),
                          U16(nkeys(old) - (idx + 2))))))

\* the merge of the updated child with the sibling at index sib, folded into
\* the parent at entry at
nodeDeleteMerge(t, node, next, merged, sib, at) ==
    Let(create(del(t, getPtr(node, sib).v), merged), LAMBDA c :
    [t |-> c.t, node |-> nodeReplace2Kid(next, node, at, c.id, getKey(merged, 0).v)])

\* the INTERNAL level of a delete, once the child's replacement is known
nodeDeleteFold(t, node, idx, updated) ==
    Let(make(BTREE_PAGE_SIZE_BYTES), LAMBDA next :
    Let(shouldMerge(del(t, getPtr(node, idx).v), node, idx, updated), LAMBDA m :
    IF m.dir < 0
    THEN nodeDeleteMerge(m.t, node, next,
                         nodeMerge(make(BTREE_PAGE_SIZE_BYTES), m.sibling, updated),
                         U16(idx - 1), U16(idx - 1))
    ELSE IF m.dir > 0
    THEN nodeDeleteMerge(m.t, node, next,
                         nodeMerge(make(BTREE_PAGE_SIZE_BYTES), updated, m.sibling),
                         U16(idx + 1), idx)
    ELSE nodeReplaceKidN(m.t, next, node, idx, <<updated>>)))

\* the replacement of node without key, or NoNode when key is not found
RECURSIVE treeDelete(_, _, _)
treeDelete(t, node, key) ==
    Let(nodeLookupLE(node, key), LAMBDA idx :
    IF btype(node) = LEAF
    THEN IF getKey(node, idx).err \/ getKey(node, idx).v # key
         THEN [t |-> t, node |-> NoNode]
         ELSE [t |-> t, node |-> leafDelete(make(BTREE_PAGE_SIZE_BYTES), node, idx)]
    ELSE IF btype(node) = NODE
    THEN Let(get(t, getPtr(node, idx).v), LAMBDA g :
         Let(treeDelete(g.t, g.node, key), LAMBDA u :
         IF u.node = NoNode THEN [t |-> u.t, node |-> NoNode]
         ELSE nodeDeleteFold(u.t, node, idx, u.node)))
    ELSE [t |-> t, node |-> NoNode])

Delete(t, key) ==
    IF t.root = 0 THEN [t |-> t, found |-> FALSE]
    ELSE Let(get(t, t.root), LAMBDA g :
         Let(treeDelete(g.t, g.node, key), LAMBDA u :
         IF u.node = NoNode THEN [t |-> u.t, found |-> FALSE]
         ELSE Let(del(u.t, t.root), LAMBDA d :
         IF btype(u.node) = NODE /\ nkeys(u.node) = 1
         THEN [t |-> setRoot(d, getPtr(u.node, 0).v), found |-> TRUE]
         ELSE Let(create(d, u.node), LAMBDA c :
              [t |-> setRoot(c.t, c.id), found |-> TRUE]))))

(***************************************************************************)
(* State.                                                                  *)
(***************************************************************************)
VARIABLES
    root,        \* BTree.root: the root page id, 0 for the empty tree
    pages,       \* page store: live page id -> bytes
    nextId,      \* page store: the id the next create returns
    log,         \* page store: the calls made so far, in order
    assigns,     \* the assignments to BTree.root made so far, in order
    nops,        \* number of Insert / Delete calls made
    lastOp,      \* the last call, its result, and root and Len(log) before it
    prevOp,      \* the call before the last
    travBefore,  \* the in-order traversal before the last call
    inserted,    \* key -> value of the last successful Insert (less deleted keys)
    built,       \* builder: the node buffer under construction
    written,     \* builder: the (ptr, key, val) appended to built, in order
    arg,         \* function under test: the node buffer it is applied to
    entries,     \* function under test: the (ptr, key, val) entries arg encodes
    call         \* function under test: the last application and its result

vars == <<root, pages, nextId, log, assigns, nops, lastOp, prevOp, travBefore,
          inserted, built, written, arg, entries, call>>

treeVars == <<root, pages, nextId, log, assigns, nops, lastOp, prevOp, travBefore,
              inserted>>

buildVars == <<built, written>>

fnVars == <<arg, entries, call>>

Tree == [root |-> root, pages |-> pages, nextId |-> nextId, log |-> log,
         assigns |-> assigns]

\* inputs
KeyA == <<97>>
KeyB == <<98>>
LongKey == [i \in 1..BTREE_MAX_KEY_SIZE_BYTES |-> 120]
TooLongKey == [i \in 1..(BTREE_MAX_KEY_SIZE_BYTES + 1) |-> 120]
TooLongVal == [i \in 1..(BREE_MAX_VAL_SIZE_BYTES + 1) |-> 121]
Keys == {<<>>, KeyA, KeyB, LongKey, TooLongKey}
Vals == {<<49>>, <<50>>, TooLongVal}
\* Delete is called with user keys; the empty key is the tree's sentinel
DeleteKeys == {KeyA, KeyB}
Ptrs == {0, 7}
BuildKeys == {<<>>, KeyA}
BuildVals == {<<>>, <<49>>}

NoOp == [op |-> "none", key |-> <<>>, val |-> <<>>, err |-> "", found |-> FALSE,
         root0 |-> 0, log0 |-> 0, asg0 |-> 0, had |-> FALSE]

\* in-order traversal of the pages reachable from page id: <<key, value>> pairs
RECURSIVE Walk(_, _, _)
Walk(pg, id, fuel) ==
    IF id \notin DOMAIN pg \/ fuel = 0 THEN <<>>
    ELSE LET n == pg[id]
             kids == [i \in 1..nkeys(n) |-> Walk(pg, getPtr(n, i - 1).v, fuel - 1)]
             Cat[i \in 0..nkeys(n)] == IF i = 0 THEN <<>> ELSE Cat[i - 1] \o kids[i]
         IN  IF btype(n) = LEAF
             THEN [i \in 1..nkeys(n) |-> <<getKey(n, i - 1).v, getValue(n, i - 1).v>>]
             ELSE IF btype(n) = NODE THEN Cat[nkeys(n)]
             ELSE <<>>

Traversal(t) == IF t.root = 0 THEN <<>> ELSE Walk(t.pages, t.root, MaxOps + 2)

\* the page ids reachable from page id through INTERNAL nodes' child pointers
RECURSIVE ReachableFrom(_, _, _)
ReachableFrom(pg, id, fuel) ==
    IF id \notin DOMAIN pg \/ fuel = 0 THEN {id}
    ELSE LET n == pg[id]
         IN  IF btype(n) = NODE
             THEN {id} \cup UNION {ReachableFrom(pg, getPtr(n, i).v, fuel - 1) :
                                     i \in 0..(nkeys(n) - 1)}
             ELSE {id}

Reachable(t) == IF t.root = 0 THEN {} ELSE ReachableFrom(t.pages, t.root, MaxOps + 2)

TreeInit ==
    /\ root = 0
    /\ pages = [i \in {} |-> NoNode]
    /\ nextId = 1
    /\ log = <<>>
    /\ assigns = <<>>
    /\ nops = 0
    /\ lastOp = NoOp
    /\ prevOp = NoOp
    /\ travBefore = <<>>
    /\ inserted = [k \in {} |-> <<>>]

BuildIdle ==
    /\ built = NoNode
    /\ written = <<>>

FnIdle ==
    /\ arg = NoNode
    /\ entries = <<>>
    /\ call = [fn |-> "none"]

Init ==
    /\ TreeInit
    /\ BuildIdle
    /\ FnIdle

\* one call of BTree.Insert
InsertAct ==
    /\ nops < MaxOps
    /\ \E key \in Keys, val \in Vals :
         \E r \in {Insert(Tree, key, val)} :
             /\ root' = r.t.root
             /\ pages' = r.t.pages
             /\ nextId' = r.t.nextId
             /\ log' = r.t.log
             /\ assigns' = r.t.assigns
             /\ lastOp' = [op |-> "Insert", key |-> key, val |-> val, err |-> r.err,
                           found |-> FALSE, root0 |-> root, log0 |-> Len(log),
                           asg0 |-> Len(assigns),
                           had |-> key \in DOMAIN inserted]
             /\ inserted' = IF r.err = "" THEN (key :> val) @@ inserted ELSE inserted
    /\ nops' = nops + 1
    /\ prevOp' = lastOp
    /\ travBefore' = Traversal(Tree)
    /\ UNCHANGED <<buildVars, fnVars>>

\* one call of BTree.Delete
DeleteAct ==
    /\ nops < MaxOps
    /\ \E key \in DeleteKeys :
         \E r \in {Delete(Tree, key)} :
             /\ root' = r.t.root
             /\ pages' = r.t.pages
             /\ nextId' = r.t.nextId
             /\ log' = r.t.log
             /\ assigns' = r.t.assigns
             /\ lastOp' = [op |-> "Delete", key |-> key, val |-> <<>>, err |-> "",
                           found |-> r.found, root0 |-> root, log0 |-> Len(log),
                           asg0 |-> Len(assigns),
                           had |-> key \in DOMAIN inserted]
             /\ inserted' = [k \in (DOMAIN inserted) \ {key} |-> inserted[k]]
    /\ nops' = nops + 1
    /\ prevOp' = lastOp
    /\ travBefore' = Traversal(Tree)
    /\ UNCHANGED <<buildVars, fnVars>>

Next == InsertAct

\* sequences of Insert calls on a tree that starts empty
Spec == Init /\ [][Next]_vars

NextDelete == InsertAct \/ DeleteAct

\* sequences of Insert and Delete calls on a tree that starts empty
SpecDelete == Init /\ [][NextDelete]_vars

\* the builder: a fresh page-sized buffer with its header set to n entries
BuildInit ==
    /\ TreeInit
    /\ FnIdle
    /\ written = <<>>
    /\ \E bt \in {NODE, LEAF}, n \in 1..MaxEntries :
         built = setHeader(make(BTREE_PAGE_SIZE_BYTES), bt, n)

\* the next entry is written with nodeAppendKeyVal
BuildAppend ==
    /\ Len(written) < nkeys(built)
    /\ \E ptr \in Ptrs, key \in BuildKeys, val \in BuildVals :
         /\ built' = nodeAppendKeyVal(built, Len(written), ptr, key, val)
         /\ written' = Append(written, <<ptr, key, val>>)
    /\ UNCHANGED <<treeVars, fnVars>>

NextBuild == BuildAppend

\* node buffers assembled entry by entry
SpecBuild == BuildInit /\ [][NextBuild]_vars

(***************************************************************************)
(* The node functions applied to encoded nodes.  The inputs are buffers    *)
(* in the layout the accessors read: header, pointer table, offset table,  *)
(* then for each entry klen, vlen, key bytes, value bytes.                 *)
(***************************************************************************)
Range(seq) == {seq[i] : i \in 1..Len(seq)}

\* encoded size of one entry: klen, vlen, key, val
entrySize(e) == 4 + Len(e.key) + Len(e.val)

\* the offset of the end of entry i (1-based) within the entry area
RECURSIVE dataEnd(_, _)
dataEnd(es, i) == IF i = 0 THEN 0 ELSE dataEnd(es, i - 1) + entrySize(es[i])

\* nbytes() of the node that encodes the entries es
encodedSize(es) == HEADER_SIZE + 8 * Len(es) + 2 * Len(es) + dataEnd(es, Len(es))

\* entry idx (0-based) written where getPtr, getOffset, kvPos, getKey and
\* getValue read it
putEntry(node, idx, e, end) ==
    Let(setPtr(node, idx, e.ptr), LAMBDA a :
    Let(kvPos(a, idx).v, LAMBDA pos :
    Let(PutUint16(a, pos, Len(e.key)), LAMBDA b :
    Let(PutUint16(b, pos + 2, Len(e.val)), LAMBDA c :
    Let(PutBytes(c, pos + 4, e.key), LAMBDA d :
    Let(PutBytes(d, pos + 4 + Len(e.key), e.val), LAMBDA f :
    PutUint16(f, HEADER_SIZE + 8 * nkeys(f) + 2 * idx, end)))))))

RECURSIVE putEntries(_, _, _)
putEntries(node, es, i) ==
    IF i = 0 THEN node
    ELSE Let(putEntries(node, es, i - 1), LAMBDA done :
         putEntry(done, i - 1, es[i], dataEnd(es, i)))

\* the buffer of type bt that encodes the entries es: one page, or two when
\* the entries do not fit one
MkNode(bt, es) ==
    Let(IF encodedSize(es) > BTREE_PAGE_SIZE_BYTES
        THEN 2 * BTREE_PAGE_SIZE_BYTES ELSE BTREE_PAGE_SIZE_BYTES, LAMBDA size :
    putEntries(setHeader(make(size), bt, Len(es)), es, Len(es)))

\* the (key, val) entries a node decodes to
EntriesOf(node) ==
    [i \in 1..nkeys(node) |-> [key |-> getKey(node, i - 1).v,
                              val |-> getValue(node, i - 1).v]]

\* keys of the input nodes, strictly increasing
NodeKeys == <<<<>>, <<97>>, <<98>>, <<98, 0>>, <<99>>>>

\* search keys
SearchKeys == {<<>>, <<97>>, <<97, 1>>, <<98>>, <<98, 0>>, <<99>>, <<100>>}

BigVal == [i \in 1..BREE_MAX_VAL_SIZE_BYTES |-> 0]

\* values of the entries of a LEAF input
LeafVals == {<<49>>, BigVal}

\* page id stored in entry i of an INTERNAL input
KidId(i) == 10 + i

\* first page id the page store hands out under an input tree
FreshId == KidId(MaxEntries + 1)

\* the entry lists of the inputs: strictly increasing keys; a LEAF holds
\* values and no pointers, an INTERNAL node pointers and no values; at most
\* two pages of bytes
EntryLists(bt) ==
    UNION {
      {[i \in 1..n |-> [ptr |-> IF bt = NODE THEN KidId(i) ELSE 0,
                        key |-> NodeKeys[ks[i]],
                        val |-> IF bt = NODE THEN <<>> ELSE vs[i]]] :
           ks \in {s \in [1..n -> 1..Len(NodeKeys)] : \A i \in 1..(n - 1) : s[i] < s[i + 1]},
           vs \in [1..n -> LeafVals]}
      : n \in 1..MaxEntries}

NoTree == [root |-> 0, pages |-> [i \in {} |-> NoNode], nextId |-> 1,
           log |-> <<>>, assigns |-> <<>>]

FnInit ==
    /\ TreeInit
    /\ BuildIdle
    /\ call = [fn |-> "none"]
    /\ \E bt \in {NODE, LEAF} :
         \E es \in EntryLists(bt) :
             /\ encodedSize(es) <= 2 * BTREE_PAGE_SIZE_BYTES
             /\ entries = es
             /\ arg = MkNode(bt, es)

\* the search keys nodeLookupLE is called with on arg: a node of a tree
\* begins with a key that is <= every key routed to it
Routed == {k \in SearchKeys : Compare(entries[1].key, k) <= 0}

\* treeInsert at a LEAF
ApplyTreeInsert ==
    /\ call.fn = "none"
    /\ btype(arg) = LEAF
    /\ \E key \in Routed, val \in {<<50>>} :
         \E r \in {treeInsert(NoTree, arg, key, val)} :
             call' = [fn |-> "treeInsert", key |-> key, val |-> val, node |-> r.node]
    /\ UNCHANGED <<treeVars, buildVars, arg, entries>>

\* leafInsert into a fresh two-page buffer
ApplyLeafInsert ==
    /\ call.fn = "none"
    /\ btype(arg) = LEAF
    /\ \E index \in 0..nkeys(arg), key \in {<<97, 1>>}, val \in {<<50>>} :
         \E r \in {leafInsert(make(2 * BTREE_PAGE_SIZE_BYTES), arg, index, key, val)} :
             call' = [fn |-> "leafInsert", index |-> index, key |-> key, val |-> val,
                      node |-> r]
    /\ UNCHANGED <<treeVars, buildVars, arg, entries>>

\* nodeLookupLE with two search keys, and on the node of the other type that
\* holds the same keys
ApplyLookup ==
    /\ call.fn = "none"
    /\ \E k1 \in Routed, k2 \in Routed :
         /\ Compare(k1, k2) <= 0
         /\ \E twin \in {MkNode(IF btype(arg) = LEAF THEN NODE ELSE LEAF, entries)} :
                call' = [fn |-> "nodeLookupLE", k1 |-> k1, k2 |-> k2,
                         i1 |-> nodeLookupLE(arg, k1), i2 |-> nodeLookupLE(arg, k2),
                         twin1 |-> nodeLookupLE(twin, k1)]
    /\ UNCHANGED <<treeVars, buildVars, arg, entries>>

\* nodeSplitInHalf and nodeSplit3 on a node of two entries or more
ApplySplit ==
    /\ call.fn = "none"
    /\ nkeys(arg) >= 2
    /\ \E h \in {nodeSplitInHalf(make(2 * BTREE_PAGE_SIZE_BYTES),
                                 make(BTREE_PAGE_SIZE_BYTES), arg)} :
         \E s3 \in {nodeSplit3(arg)} :
             call' = [fn |-> "split", half |-> h, three |-> s3]
    /\ UNCHANGED <<treeVars, buildVars, arg, entries>>

\* a LEAF page of two entries whose nbytes() is size
SizedPage(size) ==
    Let(size - (HEADER_SIZE + 20 + 8), LAMBDA room :
    Let(IF room > BREE_MAX_VAL_SIZE_BYTES THEN BREE_MAX_VAL_SIZE_BYTES ELSE room, LAMBDA v1 :
    MkNode(LEAF, <<[ptr |-> 0, key |-> <<>>, val |-> [i \in 1..v1 |-> 0]],
                   [ptr |-> 0, key |-> <<>>, val |-> [i \in 1..(room - v1) |-> 0]]>>)))

\* nbytes() of the sibling pages: the smallest, and the two around the
\* largest that merges with a child at the merge threshold
SiblingSizes ==
    {HEADER_SIZE + 20 + 8,
     BTREE_PAGE_SIZE_BYTES + HEADER_SIZE - MERGE_THRESHOLD_BTYES,
     BTREE_PAGE_SIZE_BYTES + HEADER_SIZE - MERGE_THRESHOLD_BTYES + 1}

\* nbytes() of the updated child: the smallest, and the two around the
\* merge threshold
UpdatedSizes == {HEADER_SIZE + 20 + 8, MERGE_THRESHOLD_BTYES, MERGE_THRESHOLD_BTYES + 1}

\* shouldMerge for a parent arg whose children are pages of the page store
ApplyShouldMerge ==
    /\ call.fn = "none"
    /\ btype(arg) = NODE
    /\ \A i \in 1..Len(entries) : entries[i].key = NodeKeys[i]
    /\ \E sz \in [1..Len(entries) -> SiblingSizes], u \in UpdatedSizes,
          index \in 0..(nkeys(arg) - 1) :
         \E t0 \in {[NoTree EXCEPT !.pages = [id \in {KidId(i) : i \in 1..Len(entries)} |->
                                                SizedPage(sz[id - KidId(0)])],
                                   !.nextId = FreshId]} :
           \E updated \in {SizedPage(u)} :
             \E r \in {shouldMerge(t0, arg, index, updated)} :
                 call' = [fn |-> "shouldMerge", t0 |-> t0, index |-> index,
                          updated |-> updated, res |-> r]
    /\ UNCHANGED <<treeVars, buildVars, arg, entries>>

\* the tree handle after the first Insert: page 1 is the root
FirstRoot == InsertEmpty(NoTree, <<>>, <<>>).t

\* the entries es cut after positions c1 and c2 into one, two or three
\* non-empty lists
Chunks(es, c1, c2) ==
    SelectSeq(<<SubSeq(es, 1, c1), SubSeq(es, c1 + 1, c2), SubSeq(es, c2 + 1, Len(es))>>,
              LAMBDA c : Len(c) > 0)

\* the end of Insert for a root-level result of one, two or three pages
ApplyRootGrowth ==
    /\ call.fn = "none"
    /\ \E c1 \in 1..Len(entries), c2 \in 1..Len(entries) :
         /\ c1 <= c2
         /\ \A c \in Range(Chunks(entries, c1, c2)) : encodedSize(c) <= BTREE_PAGE_SIZE_BYTES
         /\ \E kids \in {[j \in 1..Len(Chunks(entries, c1, c2)) |->
                            MkNode(btype(arg), Chunks(entries, c1, c2)[j])]} :
              \E r \in {InsertGrow(FirstRoot, kids)} :
                  call' = [fn |-> "rootGrowth", t0 |-> FirstRoot, kids |-> kids, res |-> r.t]
    /\ UNCHANGED <<treeVars, buildVars, arg, entries>>

\* the tree whose root page is arg: a LEAF alone, or an INTERNAL node over
\* one LEAF per entry, each LEAF beginning with its entry's key
TreeOf(node, es) ==
    [NoTree EXCEPT
       !.root = 1,
       !.nextId = FreshId,
       !.pages = IF btype(node) = NODE
                 THEN (1 :> node) @@
                      [id \in {KidId(i) : i \in 1..Len(es)} |->
                         MkNode(LEAF, <<[ptr |-> 0, key |-> es[id - KidId(0)].key,
                                         val |-> <<49>>]>>)]
                 ELSE (1 :> node)]

\* Insert on the tree whose root page is arg
ApplyInsert ==
    /\ call.fn = "none"
    /\ encodedSize(entries) <= BTREE_PAGE_SIZE_BYTES
    /\ \E key \in Routed, val \in {<<50>>} :
         \E t0 \in {TreeOf(arg, entries)} :
           \E r \in {Insert(t0, key, val)} :
               call' = [fn |-> "Insert", t0 |-> t0, key |-> key, val |-> val,
                        res |-> r.t, err |-> r.err]
    /\ UNCHANGED <<treeVars, buildVars, arg, entries>>

NextFn ==
    \/ ApplyTreeInsert
    \/ ApplyLeafInsert
    \/ ApplyLookup
    \/ ApplySplit
    \/ ApplyShouldMerge
    \/ ApplyRootGrowth
    \/ ApplyInsert

\* one application of a node function to an encoded node
SpecFn == FnInit /\ [][NextFn]_vars

(***************************************************************************)
(* Properties.                                                             *)
(***************************************************************************)
\* the page-store calls of the last Insert / Delete call
Calls == SubSeq(log, lastOp.log0 + 1, Len(log))

\* the traversal without its first entry, the sentinel
UserEntries(trav) == IF Len(trav) = 0 THEN <<>> ELSE Tail(trav)

KeysOf(trav) == {e[1] : e \in Range(trav)}

\* the keys of node are strictly increasing
StrictlyIncreasing(node) ==
    \A i \in 0..(nkeys(node) - 2) :
        Compare(getKey(node, i).v, getKey(node, i + 1).v) < 0

\* C1 (lookup completeness): after any sequence of Insert calls on a tree that
\* started empty, the in-order traversal holds exactly the distinct keys
\* inserted, each once and each with the value of its most recent Insert.
C1_LookupCompleteness ==
    LET user == UserEntries(Traversal(Tree))
    IN  /\ Range(user) = {<<k, inserted[k]>> : k \in DOMAIN inserted}
        /\ Len(user) = Cardinality(DOMAIN inserted)

\* C2 (delete correctness): Delete of a key that is present returns found=true,
\* removes the key from the traversal and keeps every other entry; Delete of a
\* key that was never inserted returns found=false and keeps the key set.
C2_DeleteCorrectness ==
    lastOp.op = "Delete" =>
        IF lastOp.had
        THEN /\ lastOp.found
             /\ lastOp.key \notin KeysOf(UserEntries(Traversal(Tree)))
             /\ Range(UserEntries(Traversal(Tree)))
                    = {e \in Range(UserEntries(travBefore)) : e[1] # lastOp.key}
        ELSE /\ ~lastOp.found
             /\ KeysOf(Traversal(Tree)) = KeysOf(travBefore)

\* C3 (size limit): an Insert whose key is longer than 1000 bytes or whose
\* value is longer than 3000 bytes returns the size-limit error, leaves the
\* root page id as it was and makes no page-store call.
C3_SizeLimitRefused ==
    (/\ lastOp.op = "Insert"
     /\ \/ Len(lastOp.key) > BTREE_MAX_KEY_SIZE_BYTES
        \/ Len(lastOp.val) > BREE_MAX_VAL_SIZE_BYTES)
    => /\ lastOp.err = "limit"
       /\ root = lastOp.root0
       /\ Len(log) = lastOp.log0

\* an oversized Insert was refused on a tree that is not empty
C3_Witness ==
    /\ lastOp.op = "Insert"
    /\ Len(lastOp.key) > BTREE_MAX_KEY_SIZE_BYTES
    /\ lastOp.err = "limit"
    /\ lastOp.root0 # 0

\* C4 (size invariant): every buffer passed to create has an encoded size
\* nbytes() of at most one page.
C4_SizeInvariant ==
    \A i \in 1..Len(log) :
        log[i].op = "create" => nbytes(log[i].node) <= BTREE_PAGE_SIZE_BYTES

\* an Insert on a non-empty tree has written its replacement page
C4_Witness ==
    /\ lastOp.op = "Insert"
    /\ lastOp.root0 # 0
    /\ \E i \in 1..Len(Calls) : Calls[i].op = "create" /\ nbytes(Calls[i].node) > HEADER_SIZE

\* C5 (sort invariant): every LEAF and INTERNAL node reachable from the root
\* has strictly increasing keys.
C5_SortInvariant ==
    \A id \in Reachable(Tree) : id \in DOMAIN pages => StrictlyIncreasing(pages[id])

\* C6 (no page leak): every live page is reachable from the root, and every
\* page created by the last call is reachable from the root or was freed.
C6_NoPageLeak ==
    /\ DOMAIN pages \subseteq Reachable(Tree)
    /\ \A i \in (lastOp.log0 + 1)..Len(log) :
           log[i].op = "create" =>
               \/ log[i].id \in Reachable(Tree)
               \/ \E j \in (i + 1)..Len(log) : log[j].op = "del" /\ log[j].id = log[i].id

\* an Insert on a non-empty tree has freed the old root and created a new one
C6_Witness ==
    /\ lastOp.op = "Insert"
    /\ lastOp.root0 # 0
    /\ \E i \in 1..Len(Calls) : Calls[i].op = "del"
    /\ \E i \in 1..Len(Calls) : Calls[i].op = "create"
    /\ DOMAIN pages # {}

\* C7 (no use after free): a page id passed to del is never passed to get or
\* del again, and every page id reachable from the root is live.
C7_NoUseAfterFree ==
    /\ \A i \in 1..Len(log) : \A j \in (i + 1)..Len(log) :
           log[i].op = "del" => ~(log[j].op \in {"get", "del"} /\ log[j].id = log[i].id)
    /\ Reachable(Tree) \subseteq DOMAIN pages

\* a page was freed by one Insert and the next Insert read the tree again
C7_Witness ==
    \E i \in 1..Len(log) : \E j \in (i + 1)..Len(log) :
        log[i].op = "del" /\ log[j].op = "get"

\* C8 (idempotent update): a second Insert of the same key and value leaves
\* the in-order traversal as the first one left it.
C8_IdempotentUpdate ==
    (/\ lastOp.op = "Insert" /\ prevOp.op = "Insert"
     /\ lastOp.key = prevOp.key /\ lastOp.val = prevOp.val
     /\ lastOp.err = "" /\ prevOp.err = "")
    => Traversal(Tree) = travBefore

\* the same key and value were inserted twice in a row
C8_Witness ==
    /\ lastOp.op = "Insert" /\ prevOp.op = "Insert"
    /\ lastOp.key = prevOp.key /\ lastOp.val = prevOp.val
    /\ lastOp.err = "" /\ prevOp.err = ""
    /\ lastOp.key = KeyA
    /\ Len(Traversal(Tree)) > 0

\* C9 (first insert): Insert(k, v) on the empty tree calls create exactly once,
\* with a LEAF of two entries, the empty sentinel key and then k -> v, and the
\* root becomes the id create returned.
C9_FirstInsert ==
    (lastOp.op = "Insert" /\ lastOp.root0 = 0 /\ lastOp.err = "")
    => /\ Len(Calls) = 1
       /\ Calls[1].op = "create"
       /\ root = Calls[1].id
       /\ btype(Calls[1].node) = LEAF
       /\ nkeys(Calls[1].node) = 2
       /\ getKey(Calls[1].node, 0).v = <<>>
       /\ getKey(Calls[1].node, 1).v = lastOp.key
       /\ getValue(Calls[1].node, 1).v = lastOp.val

\* C10 (round trip): once the n entries of a buffer are written in order with
\* nodeAppendKeyVal, getKey(i), getValue(i) and, for an INTERNAL node,
\* getPtr(i) return what was written as entry i.
C10_RoundTrip ==
    (Len(written) > 0 /\ Len(written) = nkeys(built))
    => \A i \in 0..(nkeys(built) - 1) :
           /\ getKey(built, i).v = written[i + 1][2]
           /\ getValue(built, i).v = written[i + 1][3]
           /\ btype(built) = NODE => getPtr(built, i).v = written[i + 1][1]

\* the assignments to root made by the last call
LastAssigns == SubSeq(assigns, lastOp.asg0 + 1, Len(assigns))

\* C11: an Insert on a non-empty tree assigns root exactly once, and after
\* every get, create and del call of that Insert, so that between two
\* page-store calls root only ever holds the old root id
C11_SingleRootAssign ==
    (lastOp.op = "Insert" /\ lastOp.root0 # 0 /\ lastOp.err = "")
        => /\ Len(LastAssigns) = 1
           /\ LastAssigns[1].at = Len(log)
           /\ LastAssigns[1].id = root
           /\ Len(Calls) > 0

C11_Witness ==
    /\ lastOp.op = "Insert" /\ lastOp.root0 # 0 /\ lastOp.err = ""
    /\ Len(Calls) >= 3
    /\ root # lastOp.root0

\* the (ptr, key, val) entries a node decodes to
FullEntriesOf(node) ==
    [i \in 1..nkeys(node) |-> [ptr |-> getPtr(node, i - 1).v,
                              key |-> getKey(node, i - 1).v,
                              val |-> getValue(node, i - 1).v]]

\* the entries kv with key set to val: replaced where present, else placed
\* after the last key <= key
InsertOrUpdate(kv, key, val) ==
    IF \E i \in 1..Len(kv) : kv[i].key = key
    THEN [i \in 1..Len(kv) |-> IF kv[i].key = key THEN [key |-> key, val |-> val]
                                                  ELSE kv[i]]
    ELSE LET p == Cardinality({i \in 1..Len(kv) : Compare(kv[i].key, key) <= 0})
         IN  SubSeq(kv, 1, p) \o <<[key |-> key, val |-> val]>> \o SubSeq(kv, p + 1, Len(kv))

\* C12: at a LEAF, treeInsert replaces the value when the incoming key is in
\* the leaf (same entry count), and otherwise adds one entry right after the
\* last key <= the incoming key
C12_LeafInsertOrUpdate ==
    call.fn = "treeInsert"
        => /\ btype(call.node) = LEAF
           /\ EntriesOf(call.node) = InsertOrUpdate(EntriesOf(arg), call.key, call.val)

RECURSIVE Concat(_)
Concat(seqs) == IF Len(seqs) = 0 THEN <<>> ELSE Head(seqs) \o Concat(Tail(seqs))

\* C13: the nodes a split produces (nodeSplitInHalf's left then right, and
\* nodeSplit3's one to three nodes), read in order, hold exactly the input's
\* entries in the input's order, have the input's type, and none is empty
C13_SplitPreservesContent ==
    call.fn = "split"
        => /\ call.half.err = ""
           /\ FullEntriesOf(call.half.left) \o FullEntriesOf(call.half.right)
                  = FullEntriesOf(arg)
           /\ \A out \in {call.half.left, call.half.right} :
                  btype(out) = btype(arg) /\ nkeys(out) > 0
           /\ ~call.three.fatal
           /\ Len(call.three.nodes) \in 1..3
           /\ Concat([i \in 1..Len(call.three.nodes) |-> FullEntriesOf(call.three.nodes[i])])
                  = FullEntriesOf(arg)
           /\ \A out \in Range(call.three.nodes) :
                  btype(out) = btype(arg) /\ nkeys(out) > 0

\* C14: leafInsert with index <= old.nkeys() produces a LEAF of old.nkeys()+1
\* entries: old's entries before index, then (key, val), then old's entries
\* from index on
C14_LeafInsertResult ==
    call.fn = "leafInsert"
        => /\ btype(call.node) = LEAF
           /\ nkeys(call.node) = nkeys(arg) + 1
           /\ EntriesOf(call.node)
                  = SubSeq(EntriesOf(arg), 1, call.index)
                    \o <<[key |-> call.key, val |-> call.val]>>
                    \o SubSeq(EntriesOf(arg), call.index + 1, nkeys(arg))

\* C15: on a node with strictly increasing keys and a search key >= the
\* node's first key, nodeLookupLE returns the index i < nkeys of the last
\* entry whose key is <= the search key; the result is non-decreasing in the
\* search key and the same for a LEAF and an INTERNAL node of the same keys
C15_LookupLE ==
    (/\ call.fn = "nodeLookupLE"
     /\ StrictlyIncreasing(arg)
     /\ Compare(getKey(arg, 0).v, call.k1) <= 0
     /\ Compare(call.k1, call.k2) <= 0)
        => /\ call.i1 < nkeys(arg)
           /\ Compare(getKey(arg, call.i1).v, call.k1) <= 0
           /\ \/ call.i1 = nkeys(arg) - 1
              \/ Compare(getKey(arg, call.i1 + 1).v, call.k1) > 0
           /\ call.i1 <= call.i2
           /\ call.twin1 = call.i1

C15_Witness ==
    /\ call.fn = "nodeLookupLE"
    /\ StrictlyIncreasing(arg)
    /\ nkeys(arg) = 3
    /\ call.i1 = 1
    /\ call.i2 = 2
    /\ Compare(getKey(arg, 1).v, call.k1) < 0

\* nbytes() of the page that entry i of the parent points to
KidBytes(t, parent, i) == nbytes(t.pages[getPtr(parent, i).v])

\* the direction the merge policy names: 0 over the threshold, else -1
\* when a left sibling exists and fits, else +1 when a right sibling exists
\* and fits, else 0
MergePolicy(t, parent, index, u) ==
    IF u > BTREE_PAGE_SIZE_BYTES \div 4 THEN 0
    ELSE IF index > 0
            /\ KidBytes(t, parent, index - 1) + u - 4 <= BTREE_PAGE_SIZE_BYTES THEN -1
    ELSE IF index + 1 < nkeys(parent)
            /\ KidBytes(t, parent, index + 1) + u - 4 <= BTREE_PAGE_SIZE_BYTES THEN 1
    ELSE 0

\* C16: shouldMerge returns the direction of the merge policy with the
\* sibling of that direction, a non-zero direction only when that sibling
\* exists and the merged node fits one page, and calls only get
C16_ShouldMergePolicy ==
    call.fn = "shouldMerge"
        => LET dir == MergePolicy(call.t0, arg, call.index, nbytes(call.updated))
           IN  /\ call.res.dir = dir
               /\ call.res.dir # 0
                     => /\ call.index + call.res.dir \in 0..(nkeys(arg) - 1)
                        /\ call.res.sibling
                               = call.t0.pages[getPtr(arg, call.index + call.res.dir).v]
                        /\ nbytes(call.res.sibling) + nbytes(call.updated) - HEADER_SIZE
                               <= BTREE_PAGE_SIZE_BYTES
               /\ \A c \in Range(call.res.t.log) : c.op = "get"
               /\ call.res.t.pages = call.t0.pages

C16_Witness ==
    /\ call.fn = "shouldMerge"
    /\ call.index > 0
    /\ nbytes(call.updated) = MERGE_THRESHOLD_BTYES
    /\ KidBytes(call.t0, arg, call.index - 1) + nbytes(call.updated) - HEADER_SIZE
           > BTREE_PAGE_SIZE_BYTES
    /\ nbytes(call.res.sibling) + nbytes(call.updated) - HEADER_SIZE = BTREE_PAGE_SIZE_BYTES
    /\ call.res.dir = 1
    /\ Len(call.res.t.log) = 2

\* the page-store calls named op in log from position from on
CallsOf(lg, from, op) == SelectSeq(SubSeq(lg, from + 1, Len(lg)), LAMBDA c : c.op = op)

\* C17: a root-level result of m > 1 pages gives a new INTERNAL root of m
\* entries, entry i holding the page id create returned for page i and the
\* first key of page i; a single page is created and becomes the root; the
\* old root is freed exactly once
C17_RootGrowth ==
    call.fn = "rootGrowth"
        => LET m == Len(call.kids)
               t1 == call.res
               made == CallsOf(t1.log, Len(call.t0.log), "create")
               freed == CallsOf(t1.log, Len(call.t0.log), "del")
           IN  /\ freed = <<[op |-> "del", id |-> call.t0.root, node |-> NoNode]>>
               /\ t1.root \in DOMAIN t1.pages
               /\ m = 1 => /\ Len(made) = 1
                           /\ t1.pages[t1.root] = call.kids[1]
               /\ m > 1 => /\ Len(made) = m + 1
                           /\ btype(t1.pages[t1.root]) = NODE
                           /\ nkeys(t1.pages[t1.root]) = m
                           /\ \A i \in 1..m :
                                 /\ made[i].node = call.kids[i]
                                 /\ getPtr(t1.pages[t1.root], i - 1).v = made[i].id
                                 /\ getKey(t1.pages[t1.root], i - 1).v
                                        = getKey(call.kids[i], 0).v

\* C18: on a node of at least 2 entries, at most 2 pages, entries within the
\* limits, both loops of nodeSplitInHalf terminate with 1 <= numleft < nkeys
\* and with the left and the right half at most one page each
C18_SplitTerminates ==
    (/\ call.fn = "split"
     /\ encodedSize(entries) <= 2 * BTREE_PAGE_SIZE_BYTES
     /\ \A e \in Range(entries) : ~checkLimit(e.key, e.val))
        => /\ call.half.err = ""
           /\ LET numleft == nkeys(call.half.left)
              IN  /\ 1 <= numleft
                  /\ numleft < nkeys(arg)
                  /\ encodedSize(SubSeq(entries, 1, numleft)) <= BTREE_PAGE_SIZE_BYTES
                  /\ encodedSize(SubSeq(entries, numleft + 1, Len(entries)))
                         <= BTREE_PAGE_SIZE_BYTES

\* the page ids on the search path for key from page id down to a LEAF
RECURSIVE SearchPath(_, _, _, _)
SearchPath(pg, id, key, fuel) ==
    IF id \notin DOMAIN pg \/ fuel = 0 THEN <<>>
    ELSE IF btype(pg[id]) = NODE
    THEN <<id>> \o SearchPath(pg, getPtr(pg[id], nodeLookupLE(pg[id], key)).v, key, fuel - 1)
    ELSE <<id>>

\* C19: an Insert on a non-empty tree changes no bytes under an existing
\* id, frees exactly the pages on the root-to-leaf search path, each once,
\* creates their replacements under new ids, and leaves every page off the
\* path live with the same bytes
C19_CopyOnWrite ==
    (call.fn = "Insert" /\ call.err = "")
        => LET pg0 == call.t0.pages
               pg1 == call.res.pages
               path == SearchPath(pg0, call.t0.root, call.key, MaxOps + 2)
               made == CallsOf(call.res.log, 0, "create")
               freed == CallsOf(call.res.log, 0, "del")
           IN  /\ \A id \in (DOMAIN pg0) \cap (DOMAIN pg1) : pg1[id] = pg0[id]
               /\ {c.id : c \in Range(freed)} = Range(path)
               /\ Len(freed) = Len(path)
               /\ \A c \in Range(made) : c.id \notin DOMAIN pg0
               /\ Len(made) >= Len(path)
               /\ (DOMAIN pg0) \ Range(path) \subseteq DOMAIN pg1
               /\ DOMAIN pg1 = ((DOMAIN pg0) \ Range(path)) \cup {c.id : c \in Range(made)}

C19_Witness ==
    /\ call.fn = "Insert" /\ call.err = ""
    /\ Len(SearchPath(call.t0.pages, call.t0.root, call.key, MaxOps + 2)) = 2
    /\ Cardinality(DOMAIN call.t0.pages) = 4
    /\ Cardinality((DOMAIN call.t0.pages) \cap (DOMAIN call.res.pages)) = 2
    /\ Len(CallsOf(call.res.log, 0, "del")) = 2

\* C20: in every tree reachable by Insert calls, for every key within the
\* limits, nodeLookupLE on each node of the key's search path returns an
\* index < nkeys (never 65535), getKey and getPtr at that index take no
\* error path, and index+1 does not wrap to 0
C20_LookupInRange ==
    \A key \in {k \in Keys : ~checkLimit(k, <<>>)} :
        \A id \in Range(SearchPath(pages, root, key, MaxOps + 2)) :
            LET index == nodeLookupLE(pages[id], key)
            IN  /\ index < nkeys(pages[id])
                /\ index # U16(0 - 1)
                /\ ~getKey(pages[id], index).err
                /\ btype(pages[id]) = NODE => ~getPtr(pages[id], index).err
                /\ U16(index + 1) # 0

C20_Witness ==
    /\ lastOp.op = "Insert" /\ lastOp.err = "" /\ lastOp.root0 # 0
    /\ lastOp.key = KeyB
    /\ prevOp.op = "Insert" /\ prevOp.err = "" /\ prevOp.key = LongKey
    /\ nodeLookupLE(pages[root], KeyB) = 1

============================================================================
